---------------------------- MODULE Spec2Model ----------------------------
(***************************************************************************)
(* tbeat: incremental ingestion of tweets / toots into an Elasticsearch    *)
(* index.  One run of main() reads the watermark (the last status of the   *)
(* index), builds a loader, dispatches on the source descriptor and feeds  *)
(* the loader's lazy sequence of statuses to the bulk helper.              *)
(***************************************************************************)
EXTENDS Integers, Sequences, FiniteSets, TLC

(***************************************************************************)
(* Bounds of the model.                                                    *)
(***************************************************************************)
MaxId == 3          \* status ids are 1..MaxId
MaxLen == 3         \* a source file holds at most MaxLen statuses
MaxRuns == 2        \* number of runs of main() against the same index
ChunkSize == 1      \* actions per bulk request (500 in elasticsearch.helpers)
PageSize == 2       \* statuses per page served by a remote API
MaxRateLimits == 1  \* rate-limit signals a provider sends during one run
chunk_size == 2     \* ids per statuses_lookup call (100 in the source)
MaxLookups == 4     \* statuses_lookup calls of one run that the history records

(***************************************************************************)
(* Python values.  None is "None"; an absent id is NoId; Optional[dict]    *)
(* results are sequences of length 0 or 1.                                 *)
(***************************************************************************)
None == "None"
NoId == -1
NoTs == -1
Truthy(x) == x # None /\ x # ""

Ids == 1..MaxId
Names == {"alice", "bob"}

VARIABLES
  fileItems,    \* the statuses stored in the source file(s), in file order
  index,        \* the Elasticsearch index: a set of [_id, _source] documents
  runs,         \* number of runs of main() started so far
  pc,           \* "idle" | "loading" | "done" | "error"
  err,          \* the exception that ended the run, "none" otherwise
  args,         \* argparse result: source, is_dir, skip_last_status_check, screen_name
  last_status,  \* main(): <<>> for None, else <<_source of the last status>>
  loader,       \* the loader object: class, since_id, screen_name, user_dict, strategy, handle
  todo,         \* statuses of the list being iterated (file data, page, batch)
  max_id,       \* pagination cursor of the remote API in use
  chunks,       \* likes lookup: batches of ids not yet looked up
  requests,     \* history: max_id of every page request of this run
  rl,           \* rate-limit signals received in this run
  emitted,      \* history: statuses yielded by the loader in this run
  buffer,       \* bulk helper: actions of the chunk being filled
  written,      \* history: documents this run has sent to the index
  index0,       \* history: the index when this run started
  twice,        \* this run repeats the arguments of the previous, completed run
  once,         \* history: the index after the first of the two runs
  exists,       \* the Elasticsearch index has been created
  deleted,      \* ids of statuses the Twitter API no longer serves
  statuses,     \* likes lookup: <<>>, or <<the response 'if statuses' is testing>>
  lookups,      \* history: the statuses_lookup calls of this run and their outcomes
  resumed       \* history: <<>>, or <<since_id, flushed>> of the interrupted run being repeated

vars == <<fileItems, index, runs, pc, err, args, last_status, loader, todo,
          max_id, chunks, requests, rl, emitted, buffer, written, index0,
          twice, once, exists, deleted, statuses, lookups, resumed>>

(***************************************************************************)
(* str methods used by the dispatch.                                       *)
(***************************************************************************)
StartsWith(s, p) == Len(s) >= Len(p) /\ SubSeq(s, 1, Len(p)) = p
EndsWith(s, p) == Len(s) >= Len(p) /\ SubSeq(s, Len(s) - Len(p) + 1, Len(s)) = p

CharAt(s, i) == SubSeq(s, i, i)
Positions(s, c) == {i \in 1..Len(s) : CharAt(s, i) = c}
SetMax(S) == CHOOSE x \in S : \A y \in S : y <= x
SetMin(S) == CHOOSE x \in S : \A y \in S : x <= y

\* Path(source).name: the last component of the path
PathName(s) ==
  LET slashes == Positions(s, "/")
  IN IF slashes = {} THEN s ELSE SubSeq(s, SetMax(slashes) + 1, Len(s))

\* source.split(':'): the pieces between the colons
RECURSIVE Split(_, _)
Split(s, c) ==
  LET ps == Positions(s, c)
  IN IF ps = {} THEN <<s>>
     ELSE <<SubSeq(s, 1, SetMin(ps) - 1)>> \o Split(SubSeq(s, SetMin(ps) + 1, Len(s)), c)


(***************************************************************************)
(* Statuses.  A status carries its id, the embedded author (user for a     *)
(* tweet, account for a toot, None when the field is absent), created_at   *)
(* and, once gen_actions has seen it, '@timestamp'.  Ids are assigned by   *)
(* the platform in creation order and every id has one author.             *)
(***************************************************************************)
Author(i) == IF i % 3 = 0 THEN "bob" ELSE "alice"

Tweet(i, with_user) ==
  [id |-> i, user |-> IF with_user THEN Author(i) ELSE None, account |-> None,
   created_at |-> [fmt |-> "tw", t |-> i], timestamp |-> NoTs]

\* on the federated instance every status is alice's
TootAuthor(i) == "alice"

Toot(i) ==
  [id |-> i, user |-> None, account |-> TootAuthor(i),
   created_at |-> [fmt |-> "dt", t |-> i + MaxId], timestamp |-> NoTs]

ArchiveTweets == {Tweet(i, u) : i \in Ids, u \in BOOLEAN}

\* contents a source file can have: at most MaxLen tweets with distinct ids
FileContents ==
  UNION {{s \in [1..n -> ArchiveTweets] :
            \A i, j \in 1..n : i # j => s[i].id # s[j].id} : n \in 0..MaxLen}

IdsOf(s) == [i \in 1..Len(s) |-> s[i].id]
Range(s) == {s[i] : i \in 1..Len(s)}

RECURSIVE DescSeq(_)
DescSeq(S) == IF S = {} THEN <<>> ELSE <<SetMax(S)>> \o DescSeq(S \ {SetMax(S)})
RECURSIVE AscSeq(_)
AscSeq(S) == IF S = {} THEN <<>> ELSE <<SetMin(S)>> \o AscSeq(S \ {SetMin(S)})

RECURSIVE Concat(_)
Concat(ss) == IF ss = <<>> THEN <<>> ELSE Head(ss) \o Concat(Tail(ss))

Take(s, n) == SubSeq(s, 1, IF Len(s) < n THEN Len(s) ELSE n)

(***************************************************************************)
(* The index.  A bulk 'index' action replaces the document stored under    *)
(* the same _id, or adds one.                                              *)
(***************************************************************************)
IndexDoc(idx, a) == {d \in idx : d._id # a._id} \cup {a}

RECURSIVE BulkIndex(_, _)
BulkIndex(idx, actions) ==
  IF actions = <<>> THEN idx
  ELSE BulkIndex(IndexDoc(idx, Head(actions)), Tail(actions))

\* ElasticsearchIngester.get_last_status: the possible results (documents
\* with equal '@timestamp' come back in an order the store chooses)
get_last_status(present, idx) ==
  IF ~present THEN {<<>>}
  ELSE IF idx = {} THEN {<<>>}
  ELSE {<<d._source>> : d \in {d \in idx : \A e \in idx :
                                  e._source.timestamp <= d._source.timestamp}}

\* a parser that knows the first layout only
parse_timestamp_single_layout(c) == <<>>

\* ElasticsearchIngester.parse_timestamp: <<t>>, or <<>> when both layouts fail
\* ("tw" is '%a %b %d %H:%M:%S %z %Y', "iso" is '%Y-%m-%d %H:%M:%S %z', "dt" a
\* datetime object, "bad" a string of neither layout)
parse_timestamp_after_first_layout(c) ==
  IF c.fmt = "iso" THEN <<c.t>> ELSE <<>>

parse_timestamp(c) ==
  IF c.fmt = "dt" THEN <<c.t>>
  ELSE IF c.fmt = "tw" THEN <<c.t>>
  ELSE parse_timestamp_after_first_layout(c)

\* an action whose document key is not the status id but a fresh one
gen_action_fresh_key(status, ts) ==
  [_id |-> status.id + MaxId * runs, _source |-> [status EXCEPT !.timestamp = ts]]

\* gen_actions: the bulk action built for one status
gen_action(status, ts) ==
  [_id |-> status.id, _source |-> [status EXCEPT !.timestamp = ts]]

(***************************************************************************)
(* Identity reconciliation.                                                *)
(***************************************************************************)
\* a constructor that does not compare screen_name with user_dict
TweetsLoader_init_unchecked(screen_name, since_id, user_dict) ==
  [raise |-> "none",
   self |-> [cls |-> "TweetsLoader",
             since_id |-> IF since_id = NoId \/ since_id = 0 THEN 0 ELSE since_id,
             user_dict |-> user_dict,
             screen_name |-> screen_name,
             fqn |-> None]]

\* TweetsLoader.__init__
TweetsLoader_init(screen_name, since_id, user_dict) ==
  [raise |-> IF Truthy(screen_name) /\ user_dict # <<>> /\ screen_name # user_dict[1]
             THEN "ValueError:screen_name" ELSE "none",
   self |-> [cls |-> "TweetsLoader",
             since_id |-> IF since_id = NoId \/ since_id = 0 THEN 0 ELSE since_id,
             user_dict |-> user_dict,
             screen_name |-> screen_name,
             fqn |-> None]]

\* MastodonLoader.__init__
MastodonLoader_init(fqn, since_id) ==
  [raise |-> "none",
   self |-> [cls |-> "MastodonLoader", since_id |-> since_id, user_dict |-> <<>>,
             screen_name |-> None, fqn |-> fqn]]

\* a reconciliation that accepts whatever author the tweet embeds
inject_user_dict_unverified(self, tweet) ==
  IF Truthy(tweet.user)
  THEN [raise |-> "none", tweet |-> tweet]
  ELSE IF self.user_dict = <<>>
       THEN [raise |-> "MissingIdentity", tweet |-> tweet]
       ELSE [raise |-> "none", tweet |-> [tweet EXCEPT !.user = self.user_dict[1]]]

\* TweetsLoader.inject_user_dict
inject_user_dict(self, tweet) ==
  IF Truthy(tweet.user)
  THEN IF Truthy(self.screen_name) /\ self.screen_name # tweet.user
       THEN [raise |-> "IdentityMismatch", tweet |-> tweet]
       ELSE [raise |-> "none", tweet |-> tweet]
  ELSE IF self.user_dict = <<>>
       THEN [raise |-> "MissingIdentity", tweet |-> tweet]
       ELSE [raise |-> "none", tweet |-> [tweet EXCEPT !.user = self.user_dict[1]]]

(***************************************************************************)
(* Source dispatch.                                                        *)
(***************************************************************************)
IsSingleFileArchiveName(name) ==
  \/ StartsWith(name, "tweet.js")
  \/ StartsWith(name, "tweets.js")
  \/ StartsWith(name, "tweets-part")

IsLineDelimited(source) == EndsWith(source, ".jl") \/ EndsWith(source, ".jsonl")

\* TweetsLoader.load: the strategy chosen, "raise" for an invalid source
TweetsLoader_load(source, is_dir) ==
  IF StartsWith(source, "api:")
  THEN [strategy |-> "user_timeline", handle |-> Split(source, ":")[2], raise |-> "none"]
  ELSE IF StartsWith(source, "api-fav:")
  THEN [strategy |-> "favorites", handle |-> Split(source, ":")[2], raise |-> "none"]
  ELSE IF IsSingleFileArchiveName(PathName(source))
  THEN [strategy |-> "js", handle |-> None, raise |-> "none"]
  ELSE IF IsLineDelimited(source)
  THEN [strategy |-> "jl", handle |-> None, raise |-> "none"]
  ELSE IF is_dir
  THEN [strategy |-> "js_dir", handle |-> None, raise |-> "none"]
  ELSE IF PathName(source) = "like.js"
  THEN [strategy |-> "like_js", handle |-> None, raise |-> "none"]
  ELSE [strategy |-> "none", handle |-> None, raise |-> "ValueError:Invalid source"]

\* MastodonLoader.load
\* a load that does not compare the handle with the author of the index
MastodonLoader_load_unchecked(self, source) ==
  IF StartsWith(source, "masto-api:")
  THEN IF Len(Split(source, ":")) # 2
       THEN [strategy |-> "none", handle |-> None, raise |-> "ValueError:unpack"]
       ELSE [strategy |-> "toots", handle |-> Split(source, ":")[2], raise |-> "none"]
  ELSE [strategy |-> "none", handle |-> None, raise |-> "NotImplementedError"]

MastodonLoader_load(self, source) ==
  IF StartsWith(source, "masto-api:")
  THEN IF Len(Split(source, ":")) # 2
       THEN [strategy |-> "none", handle |-> None, raise |-> "ValueError:unpack"]
       ELSE IF Truthy(self.fqn) /\ self.fqn # Split(source, ":")[2]
       THEN [strategy |-> "none", handle |-> None, raise |-> "ValueError:username"]
       ELSE [strategy |-> "toots", handle |-> Split(source, ":")[2], raise |-> "none"]
  ELSE [strategy |-> "none", handle |-> None, raise |-> "NotImplementedError"]


(***************************************************************************)
(* The sources: files on disk and the remote providers.                    *)
(***************************************************************************)
\* tweet.js: a JSON array whose elements wrap the tweet under 'tweet'
JsData(items) == [i \in 1..Len(items) |-> [tweet |-> items[i]]]

\* the monthly files of an old archive, as glob('*.js') finds them: a set of
\* files; name is the rank of the file name in lexicographic order
GlobJs(items) ==
  LET k == (Len(items) + 1) \div 2
  IN {[name |-> 1, data |-> SubSeq(items, 1, k)],
      [name |-> 2, data |-> SubSeq(items, k + 1, Len(items))]}

\* the files in the opposite of the sorted order
ReverseSortedFiles(files) ==
  LET names == DescSeq({f.name : f \in files})
  IN [i \in 1..Len(names) |-> CHOOSE f \in files : f.name = names[i]]

\* sorted(js_dir.glob('*.js'))
SortedFiles(files) ==
  LET names == AscSeq({f.name : f \in files})
  IN [i \in 1..Len(names) |-> CHOOSE f \in files : f.name = names[i]]

\* like.js: the liked ids, in file order
LikeData(items) == [i \in 1..Len(items) |-> [like |-> [tweetId |-> items[i].id]]]

\* sorted(datum['like']['tweetId'] for datum in data)
SortedTweetIds(data) == AscSeq({data[i].like.tweetId : i \in 1..Len(data)})

\* tweet_ids[i:i + chunk_size] for i in range(0, len(tweet_ids), chunk_size)
RECURSIVE Batches(_, _)
Batches(ids, n) ==
  IF ids = <<>> THEN <<>> ELSE <<Take(ids, n)>> \o Batches(SubSeq(ids, Len(Take(ids, n)) + 1, Len(ids)), n)

\* what the Twitter API holds, newest first
UserTimeline(handle) ==
  LET ids == DescSeq({i \in Ids : Author(i) = handle})
  IN [i \in 1..Len(ids) |-> Tweet(ids[i], TRUE)]

Favorites(handle) ==
  LET ids == DescSeq(Ids)
  IN [i \in 1..Len(ids) |-> Tweet(ids[i], TRUE)]

\* one page of api.user_timeline / api.favorites(screen_name, since_id, max_id)
ApiPage(api_name, handle, since, max) ==
  LET all == IF api_name = "user_timeline" THEN UserTimeline(handle) ELSE Favorites(handle)
      Wanted(t) == (since = NoId \/ t.id > since) /\ (max = NoId \/ t.id <= max)
  IN Take(SelectSeq(all, Wanted), PageSize)

\* api.statuses_lookup(chunk): the responses the provider can give, the
\* statuses of the batch it still serves, in an order of its choice
statuses_lookup(chunk, gone) ==
  {[i \in 1..Len(ids) |-> Tweet(ids[i], TRUE)] :
     ids \in {DescSeq(Range(chunk) \ gone), AscSeq(Range(chunk) \ gone)}}

\* api.account_statuses(user_id, max_id): one page, newest first
account_statuses(user_id, max) ==
  LET ids == DescSeq({i \in Ids : TootAuthor(i) = user_id /\ (max = NoId \/ i < max)})
  IN Take([i \in 1..Len(ids) |-> Toot(ids[i])], PageSize)

(***************************************************************************)
(* The command line.                                                       *)
(***************************************************************************)
Descriptors ==
  {[source |-> "api:alice", is_dir |-> FALSE],
   [source |-> "api-fav:alice", is_dir |-> FALSE],
   [source |-> "masto-api:alice", is_dir |-> FALSE],
   [source |-> "masto-api:bob", is_dir |-> FALSE],
   [source |-> "masto:alice", is_dir |-> FALSE],
   [source |-> "masto.jl", is_dir |-> FALSE],
   [source |-> "d/tweet.js", is_dir |-> FALSE],
   [source |-> "tweets.js.jl", is_dir |-> FALSE],
   [source |-> "t.jl", is_dir |-> FALSE],
   [source |-> "arch.jl", is_dir |-> TRUE],
   [source |-> "arch", is_dir |-> TRUE],
   [source |-> "d/like.js", is_dir |-> FALSE],
   [source |-> "x.txt", is_dir |-> FALSE]}

ArgsSet ==
  {[source |-> d.source, is_dir |-> d.is_dir, skip_last_status_check |-> k, screen_name |-> n] :
     d \in Descriptors, k \in BOOLEAN, n \in Names \cup {None}}

NoLoader ==
  [cls |-> "none", since_id |-> NoId, user_dict |-> <<>>, screen_name |-> None,
   fqn |-> None, strategy |-> "none", handle |-> None]

NoArgs == [source |-> "", is_dir |-> FALSE, skip_last_status_check |-> FALSE, screen_name |-> None]

\* no process is running: nothing but the files and the index exists
NoProcess ==
  /\ pc = "idle"
  /\ err = "none"
  /\ args = NoArgs
  /\ last_status = <<>>
  /\ loader = NoLoader
  /\ todo = <<>>
  /\ max_id = NoId
  /\ chunks = <<>>
  /\ requests = <<>>
  /\ rl = 0
  /\ emitted = <<>>
  /\ buffer = <<>>
  /\ written = <<>>
  /\ index0 = {}
  /\ twice = FALSE
  /\ once = {}
  /\ statuses = <<>>
  /\ lookups = <<>>
  /\ resumed = <<>>

\* the index is absent or present and empty; the provider serves every status
Init ==
  /\ fileItems \in FileContents
  /\ index = {}
  /\ exists \in BOOLEAN
  /\ deleted = {}
  /\ runs = 0
  /\ NoProcess

(***************************************************************************)
(* main(), up to the call of ingest: watermark read, loader construction   *)
(* and dispatch.  The generators returned by load run nothing yet.  The    *)
(* command is either a new one, or the command of the run that has just    *)
(* completed, given again.                                                 *)
(***************************************************************************)
\* a since_id that falls back to the first id when there is no last status
SinceIdOf_first_id(ls) == IF ls # <<>> THEN ls[1].id ELSE 1

\* since_id and last_user as main() derives them from last_status
SinceIdOf(ls) == IF ls # <<>> THEN ls[1].id ELSE NoId
LastUserOf(ls) ==
  IF ls # <<>>
  THEN IF Truthy(ls[1].user) THEN ls[1].user ELSE ls[1].account
  ELSE None

\* the data the chosen generator will iterate
SourceData(strategy, a) ==
  IF a.is_dir /\ strategy # "js_dir" THEN <<>>
  ELSE IF strategy = "js" THEN [i \in 1..Len(fileItems) |-> JsData(fileItems)[i].tweet]
  ELSE IF strategy = "jl" THEN fileItems
  ELSE IF strategy = "js_dir"
       THEN LET files == SortedFiles(GlobJs(fileItems))
            IN Concat([i \in 1..Len(files) |-> files[i].data])
  ELSE <<>>

main ==
  /\ runs < MaxRuns
  /\ \E a \in ArgsSet, found \in get_last_status(exists, index) :
       /\ pc = "idle" \/ (pc = "done" /\ ~twice /\ a = args) \/ (pc = "killed" /\ a = args)
       /\ LET ls == IF a.skip_last_status_check THEN <<>> ELSE found
              since_id == SinceIdOf(ls)
              last_user == LastUserOf(ls)
              user_dict == IF Truthy(a.screen_name) THEN <<a.screen_name>> ELSE <<>>
              made == IF StartsWith(a.source, "masto")
                      THEN MastodonLoader_init(last_user, since_id)
                      ELSE TweetsLoader_init(last_user, since_id, user_dict)
              picked == IF made.raise # "none"
                        THEN [strategy |-> "none", handle |-> None, raise |-> made.raise]
                        ELSE IF made.self.cls = "MastodonLoader"
                        THEN MastodonLoader_load(made.self, a.source)
                        ELSE TweetsLoader_load(a.source, a.is_dir)
          IN /\ args' = a
             /\ last_status' = ls
             /\ twice' = (pc = "done")
             /\ once' = IF pc = "done" THEN index ELSE {}
             /\ loader' = [cls |-> made.self.cls, since_id |-> made.self.since_id,
                           user_dict |-> made.self.user_dict,
                           screen_name |-> made.self.screen_name, fqn |-> made.self.fqn,
                           strategy |-> picked.strategy, handle |-> picked.handle]
             /\ pc' = IF picked.raise # "none" THEN "error" ELSE "loading"
             /\ err' = picked.raise
             /\ todo' = SourceData(picked.strategy, a)
             /\ chunks' = IF picked.strategy = "like_js"
                          THEN Batches(SortedTweetIds(LikeData(fileItems)), chunk_size)
                          ELSE <<>>
  /\ runs' = runs + 1
  /\ max_id' = NoId
  /\ requests' = <<>>
  /\ rl' = 0
  /\ emitted' = <<>>
  /\ buffer' = <<>>
  /\ written' = <<>>
  /\ index0' = index
  /\ statuses' = <<>>
  /\ lookups' = <<>>
  /\ resumed' = IF pc = "killed" THEN resumed ELSE <<>>
  /\ UNCHANGED <<fileItems, index, exists, deleted>>


(***************************************************************************)
(* ingest: gen_actions pulls one status at a time from the loader and      *)
(* hands the action to the bulk helper, which sends a chunk when the next  *)
(* action arrives and the chunk is full, and the last chunk when the       *)
(* sequence ends.  An exception raised while pulling leaves the chunk      *)
(* being filled unsent.                                                    *)
(***************************************************************************)
\* the chunk being filled is full: send it before taking the next action
chunk_is_full(buf) == Len(buf) = ChunkSize

\* a helper that sends the chunk being filled before it propagates
sent_on_exception_flushing(buf) == buf

\* the documents sent when an exception propagates out of bulk
sent_on_exception(buf) == <<>>

\* one bulk request: the first one creates the index when it is absent;
\* no request is made for an empty chunk
Send(actions) ==
  /\ index' = BulkIndex(index, actions)
  /\ written' = written \o actions
  /\ exists' = (exists \/ actions # <<>>)

Ingest(status) ==
  LET ts == parse_timestamp(status.created_at)
  IN /\ emitted' = Append(emitted, status)
     /\ IF ts = <<>>
        THEN /\ pc' = "error"
             /\ err' = "ValueError:timestamp"
             /\ Send(sent_on_exception(buffer))
             /\ UNCHANGED buffer
        ELSE /\ UNCHANGED <<pc, err>>
             /\ IF buffer # <<>> /\ chunk_is_full(buffer)
                THEN /\ Send(buffer)
                     /\ buffer' = <<gen_action(status, ts[1])>>
                ELSE /\ buffer' = Append(buffer, gen_action(status, ts[1]))
                     /\ UNCHANGED <<index, exists, written>>

\* the loader's sequence ends (StopIteration)
Finish ==
  /\ pc' = "done"
  /\ err' = "none"
  /\ Send(buffer)
  /\ buffer' = <<>>
  /\ UNCHANGED emitted

\* the loader raises
Raise(e) ==
  /\ pc' = "error"
  /\ err' = e
  /\ Send(sent_on_exception(buffer))
  /\ UNCHANGED <<buffer, emitted>>

Skip == UNCHANGED <<pc, err, index, exists, buffer, written, emitted>>

\* tweet = self.inject_user_dict(tweet); yield tweet
InjectAndYield(tweet) ==
  LET r == inject_user_dict(loader, tweet)
  IN IF r.raise # "none" THEN Raise(r.raise) ELSE Ingest(r.tweet)

(***************************************************************************)
(* The file strategies.                                                    *)
(***************************************************************************)
\* the since_id filters
js_is_new(tweet, since_id) == tweet.id > since_id
js_dir_is_new(tweet, since_id) == tweet.id > since_id
jl_is_new_or_equal(tweet, since_id) == tweet.id >= since_id
jl_is_new(tweet, since_id) == tweet.id > since_id

load_tweets_from_js ==
  /\ pc = "loading"
  /\ loader.strategy = "js"
  /\ IF args.is_dir THEN Raise("IsADirectoryError") /\ UNCHANGED todo
     ELSE IF todo = <<>> THEN Finish /\ UNCHANGED todo
     ELSE /\ todo' = Tail(todo)
          /\ IF js_is_new(Head(todo), loader.since_id)
             THEN InjectAndYield(Head(todo))
             ELSE Skip
  /\ UNCHANGED <<fileItems, runs, args, last_status, loader, max_id, chunks,
                 requests, rl, index0, twice, once, deleted, statuses, lookups,
                 resumed>>

load_tweets_from_js_dir ==
  /\ pc = "loading"
  /\ loader.strategy = "js_dir"
  /\ IF todo = <<>> THEN Finish /\ UNCHANGED todo
     ELSE /\ todo' = Tail(todo)
          /\ IF js_dir_is_new(Head(todo), loader.since_id)
             THEN InjectAndYield(Head(todo))
             ELSE Skip
  /\ UNCHANGED <<fileItems, runs, args, last_status, loader, max_id, chunks,
                 requests, rl, index0, twice, once, deleted, statuses, lookups,
                 resumed>>

load_tweets_from_jl ==
  /\ pc = "loading"
  /\ loader.strategy = "jl"
  /\ IF args.is_dir THEN Raise("IsADirectoryError") /\ UNCHANGED todo
     ELSE IF todo = <<>> THEN Finish /\ UNCHANGED todo
     ELSE /\ todo' = Tail(todo)
          /\ IF jl_is_new(Head(todo), loader.since_id)
             THEN InjectAndYield(Head(todo))
             ELSE Skip
  /\ UNCHANGED <<fileItems, runs, args, last_status, loader, max_id, chunks,
                 requests, rl, index0, twice, once, deleted, statuses, lookups,
                 resumed>>

(***************************************************************************)
(* The remote timeline / favorites strategy.  The tweepy cursor keeps the  *)
(* page being iterated (todo) and max_id; a page request that raises       *)
(* RateLimitError leaves both as they were.                                *)
(***************************************************************************)
\* kwargs['since_id'] is set only when self.since_id is truthy
ApiSince(self) == IF self.since_id # 0 THEN self.since_id ELSE NoId

\* for status in status_iterator(cursor): inject for user_timeline only
ApiYield(status) ==
  IF loader.strategy = "user_timeline" THEN InjectAndYield(status) ELSE Ingest(status)

\* an iterator that lets RateLimitError propagate
status_iterator_rate_limit_raised ==
  /\ rl' = rl + 1
  /\ Raise("RateLimitError")
  /\ UNCHANGED <<todo, max_id, requests>>

\* except tweepy.RateLimitError: sleep, then next(cursor) again
status_iterator_rate_limited ==
  /\ rl' = rl + 1
  /\ UNCHANGED <<todo, max_id, requests, pc, err, index, exists, buffer, written, emitted>>

load_tweets_from_api ==
  /\ pc = "loading"
  /\ loader.strategy \in {"user_timeline", "favorites"}
  /\ \/ /\ todo # <<>>
        /\ todo' = Tail(todo)
        /\ ApiYield(Head(todo))
        /\ UNCHANGED <<max_id, requests, rl>>
     \/ /\ todo = <<>>
        /\ rl < MaxRateLimits
        /\ status_iterator_rate_limited
     \/ /\ todo = <<>>
        /\ requests' = Append(requests, max_id)
        /\ LET page == ApiPage(loader.strategy, loader.handle, ApiSince(loader), max_id)
           IN IF page = <<>>
              THEN Finish /\ UNCHANGED <<todo, max_id, rl>>
              ELSE /\ todo' = Tail(page)
                   /\ max_id' = page[Len(page)].id - 1
                   /\ ApiYield(Head(page))
                   /\ UNCHANGED rl
  /\ UNCHANGED <<fileItems, runs, args, last_status, loader, chunks, index0,
                 twice, once, deleted, statuses, lookups, resumed>>


(***************************************************************************)
(* The likes-lookup strategy.                                              *)
(***************************************************************************)
\* tweets = [self.inject_user_dict(status._json) for status in statuses]
RECURSIVE InjectAll(_, _)
InjectAll(self, found) ==
  IF found = <<>> THEN [raise |-> "none", tweets |-> <<>>]
  ELSE LET r == inject_user_dict(self, Head(found))
           rest == InjectAll(self, Tail(found))
       IN IF r.raise # "none" THEN [raise |-> r.raise, tweets |-> <<>>]
          ELSE IF rest.raise # "none" THEN rest
          ELSE [raise |-> "none", tweets |-> <<r.tweet>> \o rest.tweets]

\* the history of lookup calls, up to MaxLookups of them
Looked(outcome) ==
  IF Len(lookups) < MaxLookups
  THEN Append(lookups, outcome)
  ELSE lookups

\* if statuses: break
lookup_loop_breaks(response) == response # <<>>

load_tweets_from_like_js ==
  /\ pc = "loading"
  /\ loader.strategy = "like_js"
  /\ \/ /\ todo # <<>>
        /\ todo' = Tail(todo)
        /\ Ingest(Head(todo))
        /\ UNCHANGED <<chunks, rl, statuses, lookups>>
     \/ /\ todo = <<>>
        /\ chunks = <<>>
        /\ Finish
        /\ UNCHANGED <<todo, chunks, rl, statuses, lookups>>
     \/ /\ todo = <<>>
        /\ chunks # <<>>
        /\ statuses = <<>>
        /\ rl < MaxRateLimits
        /\ rl' = rl + 1
        /\ lookups' = Looked([chunk |-> Head(chunks), rate_limited |-> TRUE, response |-> <<>>])
        /\ UNCHANGED <<todo, chunks, statuses, pc, err, index, exists, buffer, written, emitted>>
     \/ /\ todo = <<>>
        /\ chunks # <<>>
        /\ statuses = <<>>
        /\ \E response \in statuses_lookup(Head(chunks), deleted) :
             /\ statuses' = <<response>>
             /\ lookups' = Looked([chunk |-> Head(chunks), rate_limited |-> FALSE,
                                   response |-> IdsOf(response)])
        /\ UNCHANGED <<todo, chunks, rl, pc, err, index, exists, buffer, written, emitted>>
     \/ /\ todo = <<>>
        /\ chunks # <<>>
        /\ statuses # <<>>
        /\ statuses' = <<>>
        /\ IF ~lookup_loop_breaks(statuses[1])
           THEN UNCHANGED <<todo, chunks, pc, err, index, exists, buffer, written, emitted>>
           ELSE LET r == InjectAll(loader, statuses[1])
                IN IF r.raise # "none"
                   THEN Raise(r.raise) /\ UNCHANGED <<todo, chunks>>
                   ELSE /\ chunks' = Tail(chunks)
                        /\ todo' = Tail(r.tweets)
                        /\ Ingest(Head(r.tweets))
        /\ UNCHANGED <<rl, lookups>>
  /\ UNCHANGED <<fileItems, runs, args, last_status, loader, max_id, requests,
                 index0, twice, once, deleted, resumed>>

(***************************************************************************)
(* The federated statuses strategy.  max_id = toots[-1]['id'] runs when    *)
(* the page has been iterated to its end, before the next request.         *)
(***************************************************************************)
\* a boundary test that lets the watermark record itself through
reached_below_since_id(toot, since_id) ==
  since_id # NoId /\ since_id # 0 /\ toot.id < since_id

\* if self.since_id and toot_id <= self.since_id
reached_since_id(toot, since_id) ==
  since_id # NoId /\ since_id # 0 /\ toot.id <= since_id

TootStep(page) ==
  IF reached_since_id(Head(page), loader.since_id)
  THEN Finish /\ todo' = <<>> /\ UNCHANGED max_id
  ELSE /\ Ingest(Head(page))
       /\ todo' = Tail(page)
       /\ max_id' = IF Tail(page) = <<>> THEN Head(page).id ELSE max_id

load_toots_from_api ==
  /\ pc = "loading"
  /\ loader.strategy = "toots"
  /\ \/ /\ todo # <<>>
        /\ TootStep(todo)
        /\ UNCHANGED requests
     \/ /\ todo = <<>>
        /\ requests' = Append(requests, max_id)
        /\ LET toots == account_statuses(loader.handle, max_id)
           IN IF toots = <<>>
              THEN Finish /\ UNCHANGED <<todo, max_id>>
              ELSE TootStep(toots)
  /\ UNCHANGED <<fileItems, runs, args, last_status, loader, chunks, rl, index0,
                 twice, once, deleted, statuses, lookups, resumed>>

\* the process ends; of the run only the index remains
exit ==
  /\ pc \in {"done", "error", "killed"}
  /\ pc' = "idle"
  /\ err' = "none"
  /\ args' = NoArgs
  /\ last_status' = <<>>
  /\ loader' = NoLoader
  /\ todo' = <<>>
  /\ max_id' = NoId
  /\ chunks' = <<>>
  /\ requests' = <<>>
  /\ rl' = 0
  /\ emitted' = <<>>
  /\ buffer' = <<>>
  /\ written' = <<>>
  /\ index0' = {}
  /\ twice' = FALSE
  /\ once' = {}
  /\ statuses' = <<>>
  /\ lookups' = <<>>
  /\ resumed' = <<>>
  /\ UNCHANGED <<fileItems, index, runs, exists, deleted>>

Next ==
  \/ main
  \/ exit
  \/ load_tweets_from_js
  \/ load_tweets_from_js_dir
  \/ load_tweets_from_jl
  \/ load_tweets_from_api
  \/ load_tweets_from_like_js
  \/ load_toots_from_api

Spec == Init /\ [][Next]_vars

(***************************************************************************)
(* Source files whose created_at strings are not all of the first layout:  *)
(* under layout k > 0 the layout of a record's created_at turns with its   *)
(* id through the first layout, the second and a malformed string.         *)
(***************************************************************************)
StampOf(k, i) == IF k = 0 THEN "tw" ELSE <<"tw", "iso", "bad">>[((i + k) % 3) + 1]

Stamped(items, k) ==
  [j \in 1..Len(items) |-> [items[j] EXCEPT !.created_at.fmt = StampOf(k, items[j].id)]]

StampInit ==
  /\ fileItems \in {Stamped(f, k) : f \in FileContents, k \in 0..3}
  /\ index = {}
  /\ exists \in BOOLEAN
  /\ deleted = {}
  /\ runs = 0
  /\ NoProcess

StampSpec == StampInit /\ [][Next]_vars

(***************************************************************************)
(* Runs that can be interrupted.  The process is terminated while ingest   *)
(* is consuming the loader: the chunks already sent stay in the index,     *)
(* the chunk being filled is lost.  The same command may then be given     *)
(* again (main, from "killed").                                            *)
(***************************************************************************)
kill ==
  /\ pc = "loading"
  /\ pc' = "killed"
  /\ err' = "KeyboardInterrupt"
  /\ resumed' = <<[since_id |-> loader.since_id, flushed |-> written # <<>>]>>
  /\ last_status' = <<>>
  /\ loader' = NoLoader
  /\ todo' = <<>>
  /\ max_id' = NoId
  /\ chunks' = <<>>
  /\ requests' = <<>>
  /\ rl' = 0
  /\ emitted' = <<>>
  /\ buffer' = <<>>
  /\ written' = <<>>
  /\ index0' = {}
  /\ twice' = FALSE
  /\ once' = {}
  /\ statuses' = <<>>
  /\ lookups' = <<>>
  /\ UNCHANGED <<fileItems, index, runs, exists, deleted, args>>

NextKill ==
  \/ Next
  \/ kill

KillSpec == Init /\ [][NextKill]_vars

(***************************************************************************)
(* The likes-lookup strategy against a provider that no longer serves      *)
(* some of the liked statuses.  The generator is driven by the bulk        *)
(* helper's for loop, which runs it until it ends or raises: its steps     *)
(* are taken as long as one is possible.                                   *)
(***************************************************************************)
LikesInit ==
  /\ fileItems \in FileContents
  /\ index = {}
  /\ exists \in BOOLEAN
  /\ deleted \in SUBSET Ids
  /\ runs = 0
  /\ NoProcess

LikesNext ==
  \/ main /\ TweetsLoader_load(args'.source, args'.is_dir).strategy = "like_js"
  \/ load_tweets_from_like_js
  \/ exit

LikesSpec == LikesInit /\ [][LikesNext]_vars

LikesFairSpec == LikesSpec /\ WF_vars(load_tweets_from_like_js)


(***************************************************************************)
(* Vocabulary of the properties.                                           *)
(***************************************************************************)
FileStrategy == loader.strategy \in {"js", "jl", "js_dir"}
Reconciling == loader.strategy \in {"js", "jl", "js_dir", "user_timeline", "like_js"}
WatermarkRead == last_status # <<>>
IdentityError == pc = "error" /\ err \in {"IdentityMismatch", "MissingIdentity"}
DocAuthor(s) == IF Truthy(s.user) THEN s.user ELSE s.account
IsPrefix(s, t) == Len(s) <= Len(t) /\ SubSeq(t, 1, Len(s)) = s
Emitted == Range(emitted)
Written == {written[i]._source : i \in 1..Len(written)}

\* the records of the source file newer than w, in source order
NewerThan(items, w) ==
  LET Keep(t) == t.id > w
  IN SelectSeq(items, Keep)

(***************************************************************************)
(* C1.  As claimed: in a run whose watermark was read from the index,      *)
(* every record the loader emits has id > since_id, whatever the strategy. *)
(***************************************************************************)
C1_EveryStrategyEmitsOnlyNewer ==
  WatermarkRead => \A s \in Emitted : s.id > SinceIdOf(last_status)

\* C1 as amended: in a run whose watermark was read from the index, every
\* record emitted by a strategy other than likes-lookup has id > since_id.
C1_EmitsOnlyNewerExceptLikes ==
  (WatermarkRead /\ loader.strategy # "like_js")
    => \A s \in Emitted : s.id > SinceIdOf(last_status)

C1_Witness ==
  /\ WatermarkRead
  /\ loader.strategy = "jl"
  /\ pc = "done"
  /\ emitted # <<>>
  /\ \E i \in 1..Len(fileItems) : fileItems[i].id <= SinceIdOf(last_status)

(***************************************************************************)
(* C2.  For the three file strategies and any watermark, the output is     *)
(* the subsequence of the source's records with id > watermark, in source  *)
(* order: always a prefix of it, and all of it when the load completes.    *)
(***************************************************************************)
C2_FileOutputIsNewerSubsequence ==
  FileStrategy =>
    /\ IsPrefix(IdsOf(emitted), IdsOf(NewerThan(fileItems, loader.since_id)))
    /\ pc = "done" => IdsOf(emitted) = IdsOf(NewerThan(fileItems, loader.since_id))

C2_Witness ==
  /\ FileStrategy
  /\ pc = "done"
  /\ emitted # <<>>
  /\ \E i \in 1..Len(fileItems) : fileItems[i].id = loader.since_id


(***************************************************************************)
(* C3.  Idempotence: when a completed run is repeated with the same        *)
(* arguments over the same source, the index stays the set of documents    *)
(* the first run left (no document added, none changed), and no id is      *)
(* ever stored twice.                                                      *)
(***************************************************************************)
C3_SecondRunChangesNothing ==
  /\ twice => index = once /\ Cardinality(index) <= Cardinality(once)
  /\ \A d, e \in index : d._source.id = e._source.id => d = e

C3_Witness ==
  /\ twice
  /\ pc = "done"
  /\ written # <<>>
  /\ Cardinality(index) >= 2

(***************************************************************************)
(* C4.  As claimed: every record emitted by a strategy that applies        *)
(* identity reconciliation carries a non-empty author, equal to the        *)
(* declared author of the run, which is the author of the index's last     *)
(* record or else the --screen-name override.                              *)
(***************************************************************************)
DeclaredAuthor ==
  IF Truthy(LastUserOf(last_status)) THEN LastUserOf(last_status) ELSE args.screen_name

C4_EmittedAuthorIsDeclared ==
  Reconciling =>
    \A s \in Emitted :
      Truthy(s.user) /\ (Truthy(DeclaredAuthor) => s.user = DeclaredAuthor)

\* C4 as amended: every record emitted by a strategy that applies identity
\* reconciliation carries a non-empty author, and when the index's last
\* record names an author the record's author equals it.
C4_EmittedAuthorIsIndexAuthor ==
  Reconciling =>
    \A s \in Emitted :
      /\ Truthy(s.user)
      /\ Truthy(LastUserOf(last_status)) => s.user = LastUserOf(last_status)

C4_Witness ==
  /\ Reconciling
  /\ Truthy(LastUserOf(last_status))
  /\ \E s \in Emitted : s \notin Range(fileItems) /\ s.id \in Range(IdsOf(fileItems))
  /\ FileStrategy

(***************************************************************************)
(* C5.  As claimed: all records one run writes belong to one author, and   *)
(* when the index held records before the run, to the author of those.     *)
(***************************************************************************)
C5_RunWritesOneAuthor ==
  loader.strategy \in {"js", "jl", "js_dir", "user_timeline"} =>
    /\ \A d, e \in Written : DocAuthor(d) = DocAuthor(e)
    /\ \A d \in Written : \A x \in index0 : DocAuthor(d) = DocAuthor(x._source)

\* C5 as amended: when the run read a last status that names an author,
\* all records the run writes belong to that author.
C5_RunWritesLastAuthor ==
  (Reconciling /\ Truthy(LastUserOf(last_status)))
    => \A d \in Written : DocAuthor(d) = LastUserOf(last_status)

C5_Witness ==
  /\ Reconciling
  /\ Truthy(LastUserOf(last_status))
  /\ written # <<>>
  /\ index # index0

(***************************************************************************)
(* C6.  As claimed: when a record fails identity reconciliation the run    *)
(* ends in an error and the index is as it was before the run.             *)
(***************************************************************************)
C6_IdentityErrorWritesNothing ==
  IdentityError => index = index0 /\ written = <<>>

\* number of emitted records already sent when the record after the n-th
\* emitted one raises: the full chunks, the last ChunkSize at most unsent
SentBeforeFailure(n) == IF n = 0 THEN 0 ELSE ChunkSize * ((n - 1) \div ChunkSize)

\* C6 as amended: when a record fails identity reconciliation the run ends
\* in an error having written exactly the full bulk chunks of the records
\* emitted before it; the chunk being filled and the failing record are
\* never written, so the index is unchanged when at most one chunk of
\* records precedes the failing record.
C6_IdentityErrorWritesOnlyFullChunks ==
  IdentityError =>
    /\ [i \in 1..Len(written) |-> written[i]._id]
         = IdsOf(Take(emitted, SentBeforeFailure(Len(emitted))))
    /\ index = BulkIndex(index0, written)
    /\ Len(emitted) <= ChunkSize => index = index0

C6_Witness ==
  /\ IdentityError
  /\ written # <<>>
  /\ Len(buffer) = ChunkSize


(***************************************************************************)
(* C7.  Federated pagination: the loader yields exactly the toots with     *)
(* id > watermark in the order the provider delivers them, none with       *)
(* id <= watermark; the first page is requested without max_id and each    *)
(* further page with max_id = id of the last toot of the page before; no   *)
(* page is requested after one that holds a toot with id <= watermark;     *)
(* without a watermark the loader stops at the first empty page.           *)
(***************************************************************************)
TootTimeline(handle) ==
  LET ids == DescSeq({i \in Ids : TootAuthor(i) = handle})
  IN [i \in 1..Len(ids) |-> Toot(ids[i])]

C7_FederatedPagination ==
  loader.strategy = "toots" =>
    LET w == loader.since_id
        has_w == w # NoId /\ w # 0
        all == TootTimeline(loader.handle)
        expected == IF has_w THEN NewerThan(all, w) ELSE all
        PageOf(k) == account_statuses(loader.handle, requests[k])
        Boundary(p) == has_w /\ \E i \in 1..Len(p) : p[i].id <= w
    IN /\ has_w => \A s \in Emitted : s.id > w
       /\ IsPrefix(IdsOf(emitted), IdsOf(expected))
       /\ requests # <<>> => requests[1] = NoId
       /\ \A k \in 2..Len(requests) :
            /\ PageOf(k - 1) # <<>>
            /\ requests[k] = PageOf(k - 1)[Len(PageOf(k - 1))].id
            /\ ~Boundary(PageOf(k - 1))
       /\ pc = "done" =>
            /\ IdsOf(emitted) = IdsOf(expected)
            /\ requests # <<>>
            /\ PageOf(Len(requests)) = <<>> \/ Boundary(PageOf(Len(requests)))

C7_Witness ==
  /\ loader.strategy = "toots"
  /\ pc = "done"
  /\ loader.since_id > 0
  /\ Len(requests) >= 2
  /\ emitted # <<>>
  /\ account_statuses(loader.handle, requests[Len(requests)]) # <<>>

(***************************************************************************)
(* C8.  As claimed: the strategy is chosen by the first matching rule in   *)
(* the order api:, api-fav:, masto-api:, single-file archive name,         *)
(* line-delimited extension, directory, likes archive name.                *)
(***************************************************************************)
ClaimedStrategy(source, is_dir) ==
  IF StartsWith(source, "api:") THEN "user_timeline"
  ELSE IF StartsWith(source, "api-fav:") THEN "favorites"
  ELSE IF StartsWith(source, "masto-api:") THEN "toots"
  ELSE IF IsSingleFileArchiveName(PathName(source)) THEN "js"
  ELSE IF IsLineDelimited(source) THEN "jl"
  ELSE IF is_dir THEN "js_dir"
  ELSE IF PathName(source) = "like.js" THEN "like_js"
  ELSE "none"

\* the errors raised for the author, not for the shape of the descriptor
AuthorErrors == {"ValueError:screen_name", "ValueError:username"}

C8_DispatchIsFirstMatchWins ==
  (pc # "idle" /\ err \notin AuthorErrors)
    => loader.strategy = ClaimedStrategy(args.source, args.is_dir)

(***************************************************************************)
(* C9.  As claimed: a descriptor of none of the seven supported shapes is  *)
(* rejected with the invalid-source error at load time, nothing emitted    *)
(* and nothing written.                                                    *)
(***************************************************************************)
C9_UnsupportedSourceIsInvalidSource ==
  (pc # "idle" /\ err \notin AuthorErrors
     /\ ClaimedStrategy(args.source, args.is_dir) = "none")
    => /\ pc = "error"
       /\ err = "ValueError:Invalid source"
       /\ emitted = <<>>
       /\ written = <<>>
       /\ index = index0

(***************************************************************************)
(* C10.  Rate-limit transparency of the remote timeline / favorites        *)
(* strategy: whenever rate-limit signals arrive, the emitted sequence is   *)
(* a prefix of what the provider delivers without rate limiting, all of    *)
(* it when the load completes, and RateLimitError never ends the run.      *)
(***************************************************************************)
C10_RateLimitTransparent ==
  loader.strategy \in {"user_timeline", "favorites"} =>
    LET all == IF loader.strategy = "user_timeline"
               THEN UserTimeline(loader.handle) ELSE Favorites(loader.handle)
        expected == IF loader.since_id # 0 THEN NewerThan(all, loader.since_id) ELSE all
    IN /\ err # "RateLimitError"
       /\ IsPrefix(IdsOf(emitted), IdsOf(expected))
       /\ pc = "done" => IdsOf(emitted) = IdsOf(expected)

C10_Witness ==
  /\ loader.strategy = "favorites"
  /\ pc = "done"
  /\ rl >= 1
  /\ Len(emitted) > PageSize

(***************************************************************************)
(* C11.  As claimed: the liked ids are sorted ascending and cut into       *)
(* consecutive batches of chunk_size; the lookups that are not rate        *)
(* limited are the batches, each once and in ascending order, as many as   *)
(* there are batches when the load completes; a batch is sent again only   *)
(* after a rate-limit signal; the records are yielded batch by batch in    *)
(* the order of the provider's response.                                   *)
(***************************************************************************)
LikedBatches == Batches(SortedTweetIds(LikeData(fileItems)), chunk_size)
Answered == LET NotLimited(c) == ~c.rate_limited IN SelectSeq(lookups, NotLimited)

C11_LikesBatchedOncePerBatch ==
  (loader.strategy = "like_js" /\ Len(lookups) < MaxLookups) =>
    /\ IsPrefix([k \in 1..Len(Answered) |-> Answered[k].chunk], LikedBatches)
    /\ \A k \in 2..Len(lookups) :
         lookups[k].chunk = lookups[k - 1].chunk => lookups[k - 1].rate_limited
    /\ pc = "done" => Len(Answered) = Len(LikedBatches)
    /\ IsPrefix(IdsOf(emitted), Concat([k \in 1..Len(Answered) |-> Answered[k].response]))

(***************************************************************************)
(* C12.  No watermark means no filtering: in a run started on an absent    *)
(* or empty index, or with --skip-last-status-check, no last status is     *)
(* resolved, the loader gets since_id 0 (None for the federated loader)    *)
(* and no author, and a file strategy emits every record of the source in  *)
(* source order: each record read is emitted, all of them when the load    *)
(* completes.                                                              *)
(***************************************************************************)
Running == pc \in {"loading", "done", "error"}
NoWatermark == ~exists \/ index0 = {} \/ args.skip_last_status_check
Readable == ~args.is_dir \/ loader.strategy = "js_dir"

C12_NoWatermarkNoFiltering ==
  (Running /\ NoWatermark) =>
    /\ last_status = <<>>
    /\ loader.cls = "TweetsLoader" => loader.since_id = 0 /\ loader.screen_name = None
    /\ loader.cls = "MastodonLoader" => loader.since_id = NoId /\ loader.fqn = None
    /\ (FileStrategy /\ Readable) =>
         /\ IsPrefix(IdsOf(emitted), IdsOf(fileItems))
         /\ pc = "loading" => Len(emitted) + Len(todo) = Len(fileItems)
         /\ pc = "done" => IdsOf(emitted) = IdsOf(fileItems)

C12_Witness ==
  /\ loader.strategy = "jl"
  /\ pc = "done"
  /\ index0 = {}
  /\ ~args.skip_last_status_check
  /\ Len(fileItems) = 3
  /\ Len(emitted) = 3
  /\ IdsOf(fileItems) # AscSeq(Range(IdsOf(fileItems)))

(***************************************************************************)
(* C13.  As claimed: when a run is terminated after it has sent some bulk  *)
(* chunks and the same command is then run to completion with the          *)
(* watermark check on, the index holds every record of the source that     *)
(* was newer than the interrupted run's watermark, whatever the strategy.  *)
(***************************************************************************)
SourceIds ==
  IF FileStrategy \/ loader.strategy = "like_js" THEN Range(IdsOf(fileItems))
  ELSE IF loader.strategy = "user_timeline" THEN Range(IdsOf(UserTimeline(loader.handle)))
  ELSE IF loader.strategy = "favorites" THEN Range(IdsOf(Favorites(loader.handle)))
  ELSE IF loader.strategy = "toots" THEN Range(IdsOf(TootTimeline(loader.handle)))
  ELSE {}

C13_ResumeLosesNothing ==
  (resumed # <<>> /\ pc = "done" /\ resumed[1].flushed /\ ~args.skip_last_status_check) =>
    \A i \in SourceIds :
      (loader.strategy = "like_js" \/ i > resumed[1].since_id) => \E d \in index : d._id = i

(***************************************************************************)
(* C14.  As claimed: whenever a run could start, the id of the last        *)
(* status it would read from the index (the stored record with the         *)
(* greatest @timestamp) is the highest id among the documents stored.      *)
(***************************************************************************)
C14_WatermarkIsHighestId ==
  pc = "idle" =>
    \A found \in get_last_status(exists, index) :
      found # <<>> => SinceIdOf(found) = SetMax({d._id : d \in index})

(***************************************************************************)
(* C15.  As claimed: with finitely many rate-limit signals (at most        *)
(* MaxRateLimits in a run), a likes-lookup run that is loading eventually  *)
(* ends its sequence, whatever the provider answers to a batch lookup.     *)
(***************************************************************************)
C15_LikesLookupTerminates ==
  (loader.strategy = "like_js" /\ pc = "loading") ~> (pc # "loading")

(***************************************************************************)
(* C16.  As claimed: every record emitted by the remote timeline, the      *)
(* single-file archive, the monthly directory and the line-delimited       *)
(* strategies has passed identity reconciliation, and the favorites and    *)
(* likes-lookup strategies never reject a record for its author: a record  *)
(* whose author differs from the index's author is emitted.                *)
(***************************************************************************)
C16_ReconciliationRelaxedForFavoritesAndLikes ==
  /\ loader.strategy \in {"user_timeline", "js", "js_dir", "jl"} =>
       \A s \in Emitted :
         Truthy(s.user) /\ (Truthy(loader.screen_name) => s.user = loader.screen_name)
  /\ loader.strategy \in {"favorites", "like_js"} =>
       /\ ~IdentityError
       /\ \A k \in 1..Len(emitted) : emitted[k] = Tweet(emitted[k].id, TRUE)

(***************************************************************************)
(* C17.  Every document of the index is stored under its record's id and   *)
(* carries an @timestamp, the time its created_at denotes in the first     *)
(* layout, the second layout or as a structured timestamp; a record whose  *)
(* created_at has neither layout ends the run with an error when it is     *)
(* reached, no other record does, and it is never stored.                  *)
(***************************************************************************)
C17_WrittenDocsKeyedAndStamped ==
  /\ \A d \in index :
       /\ d._id = d._source.id
       /\ d._source.timestamp # NoTs
       /\ d._source.created_at.fmt \in {"tw", "iso", "dt"}
       /\ d._source.timestamp = d._source.created_at.t
  /\ \A k \in 1..Len(emitted) :
       emitted[k].created_at.fmt = "bad" <=>
         (k = Len(emitted) /\ pc = "error" /\ err = "ValueError:timestamp")

C17_Witness ==
  /\ pc = "error"
  /\ err = "ValueError:timestamp"
  /\ written # <<>>
  /\ \E d \in index : d._source.created_at.fmt = "iso"
  /\ \E d \in index : d._source.created_at.fmt = "tw"

(***************************************************************************)
(* C18.  For a masto-api:<handle> descriptor: when the last status read    *)
(* from the index names an author other than <handle>, the run ends in an  *)
(* error with no request to the federated API, no record emitted and no    *)
(* write; when it names <handle>, or no last status is known, the          *)
(* federated strategy is selected and the load goes on without error.      *)
(***************************************************************************)
C18_FederatedAuthorMismatchRejected ==
  (Running /\ StartsWith(args.source, "masto-api:")) =>
    LET handle == Split(args.source, ":")[2]
        author == LastUserOf(last_status)
    IN IF Truthy(author) /\ author # handle
       THEN /\ pc = "error"
            /\ err = "ValueError:username"
            /\ requests = <<>>
            /\ emitted = <<>>
            /\ written = <<>>
            /\ index = index0
       ELSE /\ pc # "error"
            /\ loader.strategy = "toots"
            /\ loader.handle = handle
            /\ pc = "done" => requests # <<>>

C18_Witness ==
  /\ StartsWith(args.source, "masto-api:")
  /\ pc = "error"
  /\ err = "ValueError:username"
  /\ Truthy(LastUserOf(last_status))
  /\ index # {}

=============================================================================
